---- MODULE Spec2Model ----
(***************************************************************************)
(* Location tracking and update delivery of the UMMA-NA driver app.        *)
(*                                                                         *)
(* LocationService.ts is a module of async functions and task handlers     *)
(* run by one JavaScript thread: a function runs without interruption up   *)
(* to its next await, and between two awaits any other function, handler   *)
(* or timer may run.  Each action below is one such uninterrupted run,     *)
(* named after the await whose result it receives.                         *)
(*                                                                         *)
(* Time is counted in abstract ticks; the 60 s deadline and the 5 min and  *)
(* 15 min intervals keep their order (1 < 2 < 3 ticks).  A location sample *)
(* is identified by its capture timestamp.                                 *)
(***************************************************************************)
EXTENDS Integers, Sequences, FiniteSets, TLC

\* ------------------------------------------------------------------ bounds
MaxOps == 2           \* calls of public operations and firings of tasks/callbacks
MaxTime == 2          \* ticks the clock advances
MaxLadderRetries == 4 \* largest options.maxRetries passed to the retry ladder

\* --------------------------------------------------------------- constants
MAX_RETRIES == 3
DEADLINE == 1                      \* setTimeout(..., 60000)
AVAILABLE_DRIVER_INTERVAL == 2     \* 5 * 60 * 1000
UNAVAILABLE_DRIVER_INTERVAL == 3   \* 15 * 60 * 1000
DEFAULT_MAX_RETRIES == 3           \* DEFAULT_OPTIONS.maxRetries

\* the values handed to the platform in an options object: intervals in
\* minutes, distances in metres
FOREGROUND_INTERVAL_MIN == 2           \* FOREGROUND_INTERVAL = 2 * 60 * 1000
BACKGROUND_INTERVAL_MIN == 10          \* BACKGROUND_INTERVAL = 10 * 60 * 1000
AVAILABLE_DRIVER_INTERVAL_MIN == 5     \* AVAILABLE_DRIVER_INTERVAL
UNAVAILABLE_DRIVER_INTERVAL_MIN == 15  \* UNAVAILABLE_DRIVER_INTERVAL
AVAILABLE_DISTANCE_FILTER == 50
UNAVAILABLE_DISTANCE_FILTER == 250

\* Date.now() at module load: every interval has elapsed since lastUpdateTime = 0
Epoch == UNAVAILABLE_DRIVER_INTERVAL

\* how old a fix may be when the Position Source hands it to JavaScript
\* (location.timestamp is the time of the fix, not of its delivery)
FixAges == {0, 1}

Callers == {"c1", "c2"}            \* the screens and App.tsx calling the service
Handlers == {"watch", "bgtask", "fetch", "immtask"}
Procs == Callers \cup Handlers

VARIABLES
  \* LocationService.ts module state (lines 117-125)
  locationSubscription,   \* 0 = null, else the id of a watch subscription
  isTracking,
  lastUpdateTime,
  pendingImmediateUpdate,
  locationUpdateTimeout,  \* "null" | "handle" (the handle stays after the timer fired)
  retryCount,
  appState,               \* "active" | "background"
  \* platform and persistent storage
  platformOS,             \* "ios" | "android"
  now,                    \* Date.now()
  timerLeft,              \* ticks until the pending setTimeout fires; -1 = none pending
  liveSubs,               \* watch subscriptions alive on the platform: [id, avail]
  nextSub,                \* subscription ids handed out so far
  bgUpdates,              \* startLocationUpdatesAsync: mode "off" | "avail" | "unavail", options
  fetchTask,              \* "unreg" | "avail" | "unavail": BACKGROUND_FETCH_TASK's interval
  immTask,                \* IMMEDIATE_UPDATE_TASK is registered
  permission,             \* location permission is granted
  user,                   \* stored profile: "none" | "avail" | "unavail" (a driver)
  lastKnownLocation,      \* AsyncStorage 'lastKnownLocation': 0 = absent, else timestamp
  \* per invocation
  pc,                     \* the await each caller / handler is at
  stk,                    \* return labels of the calls a caller is inside
  arg,                    \* isAvailable argument of the running start / toggle
  rv,                     \* values returned to the running toggleDriverAvailability
  acqs,                   \* getCurrentPositionAsync calls made by the invocation
  fnow,                   \* BACKGROUND_FETCH_TASK's local `now`
  sawPending,             \* the flag as the invocation found it when its sample arrived
                          \* (for the poll: also when the tick fired)
  \* observation
  ev,                     \* what the last step completed
  pendingAge,             \* ticks the flag has been set with no request running
  ops,                    \* operations started so far
  \* getCurrentPositionWithErrorHandling (LocationErrorHandling.ts)
  lad

svcVars == <<locationSubscription, isTracking, lastUpdateTime, pendingImmediateUpdate,
             locationUpdateTimeout, retryCount, appState>>
envVars == <<platformOS, now, timerLeft, liveSubs, nextSub, bgUpdates,
             fetchTask, immTask, permission, user, lastKnownLocation>>
\* envVars without the stored sample
envRest == <<platformOS, now, timerLeft, liveSubs, nextSub, bgUpdates,
             fetchTask, immTask, permission, user>>
procVars == <<pc, stk, arg, rv, acqs, fnow, sawPending>>
obsVars == <<ev, pendingAge, ops>>
vars == <<svcVars, envVars, procVars, obsVars, lad>>

\* --------------------------------------------------------------- helpers
NoEv == [k |-> "none", op |-> "none", p |-> "none", val |-> FALSE, mode |-> FALSE,
         fresh |-> FALSE, pend |-> FALSE, sent |-> 0, acqs |-> 0, sample |-> 0,
         res |-> "none"]

RiuPcs == {"riu_fg_acq", "riu_fg_tx", "riu_ios_acq", "riu_ios_tx",
           "riu_fb_read", "riu_fb_tx", "riu_c_read", "riu_c_tx"}

RiuRunning == \E p \in Callers : pc[p] \in RiuPcs

\* the sample saved under the time of the write instead of its own timestamp
saveWithCurrentTime(stored, sample) == now

\* saveLastKnownLocation (lines 128-137): AsyncStorage.setItem, unconditionally
saveLastKnownLocation(stored, sample) == sample

\* the cached sample saved again under the time of its transmission
resaveWithCurrentTime(stored) == now

\* updateDriverLocation (api.ts lines 106-122): one POST to the server;
\* AsyncStorage is left as it is
updateDriverLocation(stored) == stored

\* a write that throws leaves the key empty
StoredOrCleared(sample) == {sample, 0}

\* what AsyncStorage holds after saveLastKnownLocation(sample): the write may
\* throw, which the function catches and logs
Stored(sample) == {saveLastKnownLocation(lastKnownLocation, sample), lastKnownLocation}

\* a read that throws hands back a value that is not null
getLastKnownLocationUnguarded == {lastKnownLocation, -1}

\* getLastKnownLocation (lines 140-151): the stored sample, or null when the read throws
getLastKnownLocation == {lastKnownLocation, 0}

\* the samples the Position Source can deliver at this instant
Fixes == {now - a : a \in FixAges}

\* lines 413-416: the options startForegroundTracking passes to watchPositionAsync
ForegroundOptions(isAvailable) ==
  [accuracy |-> IF isAvailable THEN "Balanced" ELSE "Low",
   timeInterval |-> IF isAvailable THEN FOREGROUND_INTERVAL_MIN ELSE BACKGROUND_INTERVAL_MIN,
   distanceInterval |-> IF isAvailable THEN AVAILABLE_DISTANCE_FILTER
                                       ELSE UNAVAILABLE_DISTANCE_FILTER]

\* lines 466-469: the options startBackgroundTracking passes to
\* startLocationUpdatesAsync
BackgroundOptions(isAvailable) ==
  [accuracy |-> IF isAvailable THEN "Balanced" ELSE "Low",
   timeInterval |-> IF isAvailable THEN AVAILABLE_DRIVER_INTERVAL_MIN
                                   ELSE UNAVAILABLE_DRIVER_INTERVAL_MIN,
   distanceInterval |-> IF isAvailable THEN AVAILABLE_DISTANCE_FILTER
                                       ELSE UNAVAILABLE_DISTANCE_FILTER]

\* no background location updates are running
BgOff == [mode |-> "off", options |-> [accuracy |-> "none", timeInterval |-> 0,
                                       distanceInterval |-> 0]]

\* background location updates started for a mode
BgOn(isAvailable) ==
  [mode |-> IF isAvailable THEN "avail" ELSE "unavail",
   options |-> BackgroundOptions(isAvailable)]

\* lines 204, 397, 468: the poll interval of a mode
DriverInterval(isAvailable) ==
  IF isAvailable THEN AVAILABLE_DRIVER_INTERVAL ELSE UNAVAILABLE_DRIVER_INTERVAL

ModeName(isAvailable) == IF isAvailable THEN "avail" ELSE "unavail"

\* lines 173, 216, 272: user && user.id && user.role === 'driver'
IsDriver == user # "none"

\* return from the function p is in: to the caller's continuation, or to idle
RetPc(p) == IF stk[p] = <<>> THEN "idle" ELSE Head(stk[p])
RetStk(p) == IF stk[p] = <<>> THEN <<>> ELSE Tail(stk[p])

Ret(p, v) ==
  /\ pc' = [pc EXCEPT ![p] = RetPc(p)]
  /\ stk' = [stk EXCEPT ![p] = RetStk(p)]
  /\ rv' = [rv EXCEPT ![p].last = v]
  /\ acqs' = [acqs EXCEPT ![p] = 0]

\* the event of p's function o returning v.  fresh: a newly acquired sample was
\* transmitted; n: transmissions that succeeded in the invocation; pend: the
\* pending flag was set when the sample arrived and still set when the
\* returning step began
RetEv(p, o, v, f, n) ==
  [k |-> "ret", op |-> o, p |-> p, val |-> v, mode |-> arg[p], fresh |-> f,
   pend |-> sawPending[p] /\ pendingImmediateUpdate, sent |-> n, acqs |-> acqs[p],
   sample |-> 0, res |-> "none"]

\* the event of handler h finishing
FinEv(h, f, n) ==
  [k |-> "fin", op |-> h, p |-> h, val |-> f, mode |-> FALSE, fresh |-> f,
   pend |-> sawPending[h] /\ pendingImmediateUpdate, sent |-> n, acqs |-> acqs[h],
   sample |-> 0, res |-> "none"]

\* the event of the Position Source handing sample s to p, which saves it and
\* starts its transmission
AcqEv(p, s) == [NoEv EXCEPT !.k = "acq", !.p = p, !.sample = s]

\* a caller may start a top-level call; c2 only calls while c1 is busy
\* (the callers are interchangeable)
CanCall(p) ==
  /\ pc[p] = "idle"
  /\ ops < MaxOps
  /\ (p = "c2" => pc["c1"] # "idle")

\* p enters a function: called from outside, or from toggleDriverAvailability
Entered(p, label) == CanCall(p) \/ pc[p] = label

OpsAfter(p) == IF pc[p] = "idle" THEN ops + 1 ELSE ops

\* ------------------------------------------------------------------ Init
\* no invocation is running and nothing has been observed
InitIdle ==
  /\ pc = [p \in Procs |-> "idle"]
  /\ stk = [p \in Callers |-> <<>>]
  /\ arg = [p \in Callers |-> FALSE]
  /\ rv = [p \in Callers |-> [last |-> FALSE, bg |-> FALSE, fg |-> FALSE]]
  /\ acqs = [p \in Procs |-> 0]
  /\ fnow = 0
  /\ sawPending = [p \in Procs |-> FALSE]
  /\ ev = NoEv
  /\ pendingAge = 0
  /\ ops = 0
  /\ now = Epoch
  /\ timerLeft = -1

\* the initial values of the coordinator's fields (lines 117-125)
InitFields ==
  /\ lastUpdateTime = 0
  /\ pendingImmediateUpdate = FALSE
  /\ locationUpdateTimeout = "null"
  /\ retryCount = 0
  /\ appState = "active"

LadIdle == [pc |-> "idle"]

\* the module as loaded, before any call (lines 117-125), a driver logged in
Init ==
  /\ InitIdle
  /\ InitFields
  /\ locationSubscription = 0
  /\ isTracking = FALSE
  /\ liveSubs = {}
  /\ nextSub = 0
  /\ bgUpdates = BgOff
  /\ fetchTask = "unreg"
  /\ immTask = FALSE
  /\ platformOS \in {"ios", "android"}
  /\ permission = TRUE
  /\ user \in {"avail", "unavail"}
  /\ lastKnownLocation = 0
  /\ lad = LadIdle

\* a running session: what App.tsx's initializeApp (lines 76-92) leaves for a
\* logged-in driver whose permission is granted and whose start calls succeeded:
\* startForegroundTracking(id, isAvailable), and startBackgroundTracking(true)
\* for an available driver
InitSession ==
  /\ InitIdle
  /\ InitFields
  /\ platformOS \in {"ios", "android"}
  /\ permission = TRUE
  /\ user \in {"avail", "unavail"}
  /\ lastKnownLocation \in {0, Epoch - 1}
  /\ locationSubscription = 1
  /\ isTracking = TRUE
  /\ liveSubs = {[id |-> 1, avail |-> user = "avail",
                  options |-> ForegroundOptions(user = "avail")]}
  /\ nextSub = 1
  /\ bgUpdates = (IF user = "avail" THEN BgOn(TRUE) ELSE BgOff)
  /\ fetchTask = user
  /\ immTask = TRUE
  /\ lad = LadIdle

\* ------------------------------------------------ requestImmediateUpdate
\* where the function goes after the foreground attempt (lines 577-605)
RiuAlternate == IF platformOS = "ios" THEN "riu_ios_acq" ELSE "riu_fb_read"

\* an entry that keeps the count the earlier invocations left
RetryCountKept == retryCount

\* line 545: retryCount = 0
RetryCountAtEntry == 0

\* lines 542-552 (and 577-605 when the app is not active), up to the first await
RIU_Enter(p) ==
  /\ Entered(p, "riu_enter")
  /\ pendingImmediateUpdate' = TRUE
  /\ retryCount' = RetryCountAtEntry
  /\ pendingAge' = 0
  /\ LET nxt == IF appState = "active" THEN "riu_fg_acq" ELSE RiuAlternate
     IN /\ pc' = [pc EXCEPT ![p] = nxt]
        /\ acqs' = [acqs EXCEPT ![p] = IF nxt = "riu_fb_read" THEN 0 ELSE 1]
  /\ ops' = OpsAfter(p)
  /\ ev' = NoEv
  /\ UNCHANGED <<locationSubscription, isTracking, lastUpdateTime, locationUpdateTimeout,
                 appState, envVars, stk, arg, rv, fnow, sawPending, lad>>

\* lines 552-564 and 581-592: the fix arrives, is saved, and its transmission starts
RIU_Acquired(p) ==
  /\ pc[p] \in {"riu_fg_acq", "riu_ios_acq"}
  /\ permission   \* without it the Position Source delivers nothing
  /\ \E s \in Fixes : /\ lastKnownLocation' \in Stored(s)
                       /\ ev' = AcqEv(p, s)
  /\ sawPending' = [sawPending EXCEPT ![p] = pendingImmediateUpdate]
  /\ pc' = [pc EXCEPT ![p] = IF pc[p] = "riu_fg_acq" THEN "riu_fg_tx" ELSE "riu_ios_tx"]
  /\ UNCHANGED <<svcVars, platformOS, now, timerLeft, liveSubs, nextSub, bgUpdates,
                 fetchTask, immTask, permission, user,
                 stk, arg, rv, acqs, fnow, pendingAge, ops, lad>>

\* lines 566-570 and 593-594: updateDriverLocation resolved; return true
RIU_Sent(p) ==
  /\ pc[p] \in {"riu_fg_tx", "riu_ios_tx"}
  /\ lastKnownLocation' = updateDriverLocation(lastKnownLocation)
  /\ lastUpdateTime' = IF pc[p] = "riu_fg_tx" THEN now ELSE lastUpdateTime
  /\ pendingImmediateUpdate' = FALSE
  /\ pendingAge' = 0
  /\ Ret(p, TRUE)
  /\ ev' = RetEv(p, "riu", TRUE, TRUE, 1)
  /\ UNCHANGED <<locationSubscription, isTracking, locationUpdateTimeout, retryCount,
                 appState, envRest, arg, fnow, sawPending, ops, lad>>

\* lines 571-605: getCurrentPositionAsync or updateDriverLocation threw in the
\* foreground attempt; fall through to the alternate approach
RIU_FgError(p) ==
  /\ pc[p] \in {"riu_fg_acq", "riu_fg_tx"}
  /\ pc' = [pc EXCEPT ![p] = RiuAlternate]
  /\ acqs' = [acqs EXCEPT ![p] = IF RiuAlternate = "riu_ios_acq" THEN @ + 1 ELSE @]
  /\ pendingImmediateUpdate' = IF RiuAlternate = "riu_fb_read" THEN TRUE
                               ELSE pendingImmediateUpdate
  /\ pendingAge' = IF RiuAlternate = "riu_fb_read" \/ ~pendingImmediateUpdate
                   THEN 0 ELSE pendingAge
  /\ ev' = NoEv
  /\ UNCHANGED <<locationSubscription, isTracking, lastUpdateTime, locationUpdateTimeout,
                 retryCount, appState, envVars, stk, arg, rv, fnow, sawPending, ops, lad>>

\* lines 597-605: the iOS attempt threw; set the flag and read the cached sample
RIU_IosError(p) ==
  /\ pc[p] \in {"riu_ios_acq", "riu_ios_tx"}
  /\ pc' = [pc EXCEPT ![p] = "riu_fb_read"]
  /\ pendingImmediateUpdate' = TRUE
  /\ pendingAge' = 0
  /\ ev' = NoEv
  /\ UNCHANGED <<locationSubscription, isTracking, lastUpdateTime, locationUpdateTimeout,
                 retryCount, appState, envVars, stk, arg, rv, acqs, fnow, sawPending, ops, lad>>

\* lines 615-625: the deadline timer replaces any earlier one; return true
RiuAccepted(p, n) ==
  /\ locationUpdateTimeout' = "handle"
  /\ timerLeft' = DEADLINE
  /\ Ret(p, TRUE)
  /\ ev' = RetEv(p, "riu", TRUE, FALSE, n)
  /\ UNCHANGED <<locationSubscription, isTracking, lastUpdateTime, pendingImmediateUpdate,
                 retryCount, appState, platformOS, now, liveSubs, nextSub, bgUpdates,
                 fetchTask, immTask, permission, user, arg, fnow, sawPending,
                 pendingAge>>

\* lines 648-650: return false
RiuFailed(p) ==
  /\ retryCount' = retryCount + 1
  /\ pendingImmediateUpdate' = FALSE
  /\ pendingAge' = 0
  /\ Ret(p, FALSE)
  /\ ev' = RetEv(p, "riu", FALSE, FALSE, 0)
  /\ UNCHANGED <<locationSubscription, isTracking, lastUpdateTime, locationUpdateTimeout,
                 appState, envVars, arg, fnow, sawPending>>

\* lines 605-606 and 632-633: getLastKnownLocation resolved
RIU_FallbackRead(p) ==
  /\ pc[p] \in {"riu_fb_read", "riu_c_read"}
  /\ \E v \in getLastKnownLocation :
       IF v # 0
       THEN /\ pc' = [pc EXCEPT ![p] = IF pc[p] = "riu_fb_read" THEN "riu_fb_tx"
                                                                ELSE "riu_c_tx"]
            /\ ev' = NoEv
            /\ UNCHANGED <<svcVars, envVars, stk, arg, rv, acqs, fnow, sawPending, pendingAge>>
       ELSE IF pc[p] = "riu_fb_read"
            THEN RiuAccepted(p, 0) /\ UNCHANGED lastKnownLocation
            ELSE RiuFailed(p)
  /\ UNCHANGED <<ops, lad>>

\* lines 607-625 and 634-641: the cached sample was transmitted
RIU_FallbackSent(p) ==
  /\ pc[p] \in {"riu_fb_tx", "riu_c_tx"}
  /\ lastKnownLocation' = updateDriverLocation(lastKnownLocation)
  /\ IF pc[p] = "riu_fb_tx"
     THEN RiuAccepted(p, 1)
     ELSE /\ pendingImmediateUpdate' = FALSE
          /\ pendingAge' = 0
          /\ Ret(p, TRUE)
          /\ ev' = RetEv(p, "riu", TRUE, FALSE, 1)
          /\ UNCHANGED <<locationSubscription, isTracking, lastUpdateTime,
                         locationUpdateTimeout, retryCount, appState, envRest, arg, fnow, sawPending>>
  /\ UNCHANGED <<ops, lad>>

\* lines 626-650: the transmission of the cached sample threw
RIU_FallbackError(p) ==
  /\ pc[p] \in {"riu_fb_tx", "riu_c_tx"}
  /\ IF pc[p] = "riu_fb_tx" /\ retryCount >= MAX_RETRIES
     THEN /\ pc' = [pc EXCEPT ![p] = "riu_c_read"]
          /\ ev' = NoEv
          /\ UNCHANGED <<svcVars, envVars, stk, arg, rv, acqs, fnow, sawPending, pendingAge>>
     ELSE RiuFailed(p)
  /\ UNCHANGED <<ops, lad>>

requestImmediateUpdate(p) ==
  \/ RIU_Enter(p)
  \/ RIU_Acquired(p)
  \/ RIU_Sent(p)
  \/ RIU_FgError(p)
  \/ RIU_IosError(p)
  \/ RIU_FallbackRead(p)
  \/ RIU_FallbackSent(p)
  \/ RIU_FallbackError(p)

\* ------------------------------------------------ getLocationWithFallback
GlfAcq == {"glf_acq_high", "glf_acq_bal", "glf_acq_low"}
GlfTx == {"glf_tx_high", "glf_tx_bal", "glf_tx_low"}

\* the transmission that follows an acquisition at a tier
GlfTxOf(l) == CASE l = "glf_acq_high" -> "glf_tx_high"
                [] l = "glf_acq_bal" -> "glf_tx_bal"
                [] OTHER -> "glf_tx_low"

\* where a tier's catch block goes (lines 670-708)
GlfNext(l) == CASE l \in {"glf_acq_high", "glf_tx_high"} -> "glf_acq_bal"
                [] l \in {"glf_acq_bal", "glf_tx_bal"} -> "glf_acq_low"
                [] OTHER -> "glf_fb_read"

\* lines 658, 675, 692: the accuracy a tier's attempt requests, as TierRank
GlfTier(l) == CASE l \in {"glf_acq_high", "glf_tx_high"} -> 3
                [] l \in {"glf_acq_bal", "glf_tx_bal"} -> 2
                [] OTHER -> 1

\* lines 655-660
GLF_Enter(p) ==
  /\ CanCall(p)
  /\ pc' = [pc EXCEPT ![p] = "glf_acq_high"]
  /\ acqs' = [acqs EXCEPT ![p] = 1]
  /\ ops' = ops + 1
  /\ ev' = NoEv
  /\ UNCHANGED <<svcVars, envVars, stk, arg, rv, fnow, sawPending, pendingAge, lad>>

\* lines 658-663, 675-680, 692-697: the fix arrives and is saved
GLF_Acquired(p) ==
  /\ pc[p] \in GlfAcq
  /\ permission   \* without it the Position Source delivers nothing
  /\ \E s \in Fixes : /\ lastKnownLocation' \in Stored(s)
                       /\ ev' = AcqEv(p, s)
  /\ sawPending' = [sawPending EXCEPT ![p] = pendingImmediateUpdate]
  /\ pc' = [pc EXCEPT ![p] = GlfTxOf(pc[p])]
  /\ UNCHANGED <<svcVars, platformOS, now, timerLeft, liveSubs, nextSub, bgUpdates,
                 fetchTask, immTask, permission, user,
                 stk, arg, rv, acqs, fnow, pendingAge, ops, lad>>

\* lines 669, 686, 703: updateDriverLocation resolved; return true
GLF_Sent(p) ==
  /\ pc[p] \in GlfTx
  /\ lastKnownLocation' = updateDriverLocation(lastKnownLocation)
  /\ Ret(p, TRUE)
  /\ ev' = RetEv(p, "glf", TRUE, TRUE, 1)
  /\ UNCHANGED <<svcVars, envRest, arg, fnow, sawPending, pendingAge, ops, lad>>

\* lines 670, 687, 704: the acquisition or the transmission of a tier threw
GLF_Error(p) ==
  /\ pc[p] \in GlfAcq \cup GlfTx
  /\ pc' = [pc EXCEPT ![p] = GlfNext(pc[p])]
  /\ acqs' = [acqs EXCEPT ![p] = IF GlfNext(pc[p]) = "glf_fb_read" THEN @ ELSE @ + 1]
  /\ ev' = NoEv
  /\ UNCHANGED <<svcVars, envVars, stk, arg, rv, fnow, sawPending, pendingAge, ops, lad>>

\* lines 708-719: getLastKnownLocation resolved
GLF_FallbackRead(p) ==
  /\ pc[p] = "glf_fb_read"
  /\ \E v \in getLastKnownLocation :
       IF v # 0
       THEN /\ pc' = [pc EXCEPT ![p] = "glf_fb_tx"]
            /\ ev' = NoEv
            /\ UNCHANGED <<stk, rv, acqs>>
       ELSE /\ Ret(p, FALSE)
            /\ ev' = RetEv(p, "glf", FALSE, FALSE, 0)
  /\ UNCHANGED <<svcVars, envVars, arg, fnow, sawPending, pendingAge, ops, lad>>

\* lines 710-716: the cached sample was transmitted; return true
GLF_FallbackSent(p) ==
  /\ pc[p] = "glf_fb_tx"
  /\ lastKnownLocation' = updateDriverLocation(lastKnownLocation)
  /\ Ret(p, TRUE)
  /\ ev' = RetEv(p, "glf", TRUE, FALSE, 1)
  /\ UNCHANGED <<svcVars, envRest, arg, fnow, sawPending, pendingAge, ops, lad>>

\* lines 710-714 inside the last catch: the transmission threw and nothing catches it
GLF_FallbackError(p) ==
  /\ pc[p] = "glf_fb_tx"
  /\ Ret(p, FALSE)
  /\ ev' = [RetEv(p, "glf", FALSE, FALSE, 0) EXCEPT !.k = "throw"]
  /\ UNCHANGED <<svcVars, envVars, arg, fnow, sawPending, pendingAge, ops, lad>>

getLocationWithFallback(p) ==
  \/ GLF_Enter(p)
  \/ GLF_Acquired(p)
  \/ GLF_Sent(p)
  \/ GLF_Error(p)
  \/ GLF_FallbackRead(p)
  \/ GLF_FallbackSent(p)
  \/ GLF_FallbackError(p)

\* --------------------------------------- watch callback (lines 425-440)
Fin(h, f, n) ==
  /\ pc' = [pc EXCEPT ![h] = "idle"]
  /\ acqs' = [acqs EXCEPT ![h] = 0]
  /\ ev' = FinEv(h, f, n)

\* the platform delivers a position to a live subscription's callback, which
\* saves it and starts the transmission
Watch_Deliver ==
  /\ pc["watch"] = "idle"
  /\ permission   \* without it the Position Source delivers nothing
  /\ ops < MaxOps
  /\ liveSubs # {}
  /\ \E s \in Fixes : /\ lastKnownLocation' \in Stored(s)
                       /\ ev' = AcqEv("watch", s)
  /\ sawPending' = [sawPending EXCEPT !["watch"] = pendingImmediateUpdate]
  /\ pc' = [pc EXCEPT !["watch"] = "watch_tx"]
  /\ ops' = ops + 1
  /\ UNCHANGED <<svcVars, platformOS, now, timerLeft, liveSubs, nextSub, bgUpdates,
                 fetchTask, immTask, permission, user,
                 stk, arg, rv, acqs, fnow, pendingAge, lad>>

\* lines 435-436
Watch_Sent ==
  /\ pc["watch"] = "watch_tx"
  /\ lastKnownLocation' = updateDriverLocation(lastKnownLocation)
  /\ lastUpdateTime' = now
  /\ Fin("watch", TRUE, 1)
  /\ UNCHANGED <<locationSubscription, isTracking, pendingImmediateUpdate,
                 locationUpdateTimeout, retryCount, appState, envRest,
                 stk, arg, rv, fnow, sawPending, pendingAge, ops, lad>>

\* lines 437-439
Watch_Error ==
  /\ pc["watch"] = "watch_tx"
  /\ Fin("watch", FALSE, 0)
  /\ UNCHANGED <<svcVars, envVars, stk, arg, rv, fnow, sawPending, pendingAge, ops, lad>>

\* --------------------------------- LOCATION_TRACKING_TASK (lines 154-192)
\* the platform hands background locations to the task while location updates
\* run: the sample is saved and the stored user read
BgTask_Deliver ==
  /\ pc["bgtask"] = "idle"
  /\ permission   \* without it the Position Source delivers nothing
  /\ ops < MaxOps
  /\ bgUpdates.mode # "off"
  /\ sawPending' = [sawPending EXCEPT !["bgtask"] = pendingImmediateUpdate]
  /\ ops' = ops + 1
  /\ IF IsDriver
     THEN /\ pc' = [pc EXCEPT !["bgtask"] = "bgtask_tx"]
          /\ \E s \in Fixes : /\ lastKnownLocation' \in Stored(s)
                               /\ ev' = AcqEv("bgtask", s)
          /\ UNCHANGED <<lastUpdateTime, acqs>>
     ELSE /\ \E s \in Fixes : lastKnownLocation' \in Stored(s)
          /\ lastUpdateTime' = now
          /\ Fin("bgtask", FALSE, 0)
  /\ UNCHANGED <<locationSubscription, isTracking, pendingImmediateUpdate,
                 locationUpdateTimeout, retryCount, appState,
                 platformOS, now, timerLeft, liveSubs, nextSub, bgUpdates,
                 fetchTask, immTask, permission, user,
                 stk, arg, rv, fnow, pendingAge, lad>>

\* lines 179-184
BgTask_Sent ==
  /\ pc["bgtask"] = "bgtask_tx"
  /\ lastKnownLocation' = updateDriverLocation(lastKnownLocation)
  /\ lastUpdateTime' = now
  /\ Fin("bgtask", TRUE, 1)
  /\ UNCHANGED <<locationSubscription, isTracking, pendingImmediateUpdate,
                 locationUpdateTimeout, retryCount, appState, envRest,
                 stk, arg, rv, fnow, sawPending, pendingAge, ops, lad>>

\* lines 185-188
BgTask_Error ==
  /\ pc["bgtask"] = "bgtask_tx"
  /\ Fin("bgtask", FALSE, 0)
  /\ UNCHANGED <<svcVars, envVars, stk, arg, rv, fnow, sawPending, pendingAge, ops, lad>>

\* ----------------------------------- BACKGROUND_FETCH_TASK (lines 195-259)
\* the handler's result is a BackgroundFetchResult (lines 230, 233, 251, 257)
FetchFin(res, f, n) ==
  /\ pc' = [pc EXCEPT !["fetch"] = "idle"]
  /\ acqs' = [acqs EXCEPT !["fetch"] = 0]
  /\ ev' = [FinEv("fetch", f, n) EXCEPT !.res = res]

\* lines 197-200: the poll fires while the task is registered
Fetch_Fire ==
  /\ pc["fetch"] = "idle"
  /\ ops < MaxOps
  /\ fetchTask # "unreg"
  /\ fnow' = now
  /\ sawPending' = [sawPending EXCEPT !["fetch"] = pendingImmediateUpdate]
  /\ pc' = [pc EXCEPT !["fetch"] = "fetch_user"]
  /\ ops' = ops + 1
  /\ ev' = NoEv
  /\ UNCHANGED <<svcVars, envVars, stk, arg, rv, acqs, pendingAge, lad>>

\* a poll that treats every tick as due
FetchDueAlways == TRUE

\* lines 207: is an update due for the stored profile's mode
FetchDue ==
  \/ fnow - lastUpdateTime >= DriverInterval(user = "avail")
  \/ pendingImmediateUpdate

\* lines 200-211: getUser resolved; acquire if an update is due
Fetch_User ==
  /\ pc["fetch"] = "fetch_user"
  /\ IF FetchDue
     THEN /\ pc' = [pc EXCEPT !["fetch"] = IF IsDriver THEN "fetch_acq"
                                                       ELSE "fetch_acq_nouser"]
          /\ acqs' = [acqs EXCEPT !["fetch"] = 1]
          /\ ev' = NoEv
          /\ fnow' = fnow
          /\ sawPending' = sawPending
     ELSE /\ FetchFin("NoData", FALSE, 0)
          /\ fnow' = 0
          /\ sawPending' = sawPending
  /\ UNCHANGED <<svcVars, envVars, stk, arg, rv, pendingAge, ops, lad>>

\* lines 209-221: the fix arrives and is saved; transmit for a driver
Fetch_Acquired ==
  /\ pc["fetch"] \in {"fetch_acq", "fetch_acq_nouser"}
  /\ permission   \* without it the Position Source delivers nothing
  /\ sawPending' = [sawPending EXCEPT !["fetch"] = pendingImmediateUpdate]
  /\ IF pc["fetch"] = "fetch_acq"
     THEN /\ pc' = [pc EXCEPT !["fetch"] = "fetch_tx"]
          /\ \E s \in Fixes : /\ lastKnownLocation' \in Stored(s)
                               /\ ev' = AcqEv("fetch", s)
          /\ UNCHANGED <<acqs, fnow>>
     ELSE /\ \E s \in Fixes : lastKnownLocation' \in Stored(s)
          /\ FetchFin("NoData", FALSE, 0)
          /\ fnow' = 0
  /\ UNCHANGED <<svcVars, platformOS, now, timerLeft, liveSubs, nextSub, bgUpdates,
                 fetchTask, immTask, permission, user,
                 stk, arg, rv, pendingAge, ops, lad>>

\* lines 222-230
Fetch_Sent ==
  /\ pc["fetch"] = "fetch_tx"
  /\ lastKnownLocation' = updateDriverLocation(lastKnownLocation)
  /\ pendingImmediateUpdate' = FALSE
  /\ pendingAge' = 0
  /\ lastUpdateTime' = fnow
  /\ fnow' = 0
  /\ sawPending' = sawPending
  /\ FetchFin("NewData", TRUE, 1)
  /\ UNCHANGED <<locationSubscription, isTracking, locationUpdateTimeout, retryCount,
                 appState, envRest, stk, arg, rv, ops, lad>>

\* a catch block that sends the cached sample whether or not a request is pending
FetchFallbackAlways == TRUE

\* line 239: the catch block tries the cached sample only for a pending request
FetchFallbackWanted == pendingImmediateUpdate

\* lines 234-239 and 257: the acquisition or the transmission threw
Fetch_Error ==
  /\ pc["fetch"] \in {"fetch_acq", "fetch_acq_nouser", "fetch_tx"}
  /\ IF FetchFallbackWanted
     THEN /\ pc' = [pc EXCEPT !["fetch"] = "fetch_fb_read"]
          /\ ev' = NoEv
          /\ UNCHANGED <<acqs, fnow, sawPending>>
     ELSE /\ FetchFin("Failed", FALSE, 0)
          /\ fnow' = 0
          /\ sawPending' = sawPending
  /\ UNCHANGED <<svcVars, envVars, stk, arg, rv, pendingAge, ops, lad>>

\* lines 239-247: getLastKnownLocation and getUser resolved
Fetch_FallbackRead ==
  /\ pc["fetch"] = "fetch_fb_read"
  /\ \E v \in getLastKnownLocation :
       IF v # 0 /\ IsDriver
       THEN /\ pc' = [pc EXCEPT !["fetch"] = "fetch_fb_tx"]
            /\ ev' = NoEv
            /\ UNCHANGED <<acqs, fnow, sawPending>>
       ELSE /\ FetchFin("Failed", FALSE, 0)
            /\ fnow' = 0
            /\ sawPending' = sawPending
  /\ UNCHANGED <<svcVars, envVars, stk, arg, rv, pendingAge, ops, lad>>

\* lines 248-250
Fetch_FallbackSent ==
  /\ pc["fetch"] = "fetch_fb_tx"
  /\ lastKnownLocation' = updateDriverLocation(lastKnownLocation)
  /\ pendingImmediateUpdate' = FALSE
  /\ pendingAge' = 0
  /\ fnow' = 0
  /\ sawPending' = sawPending
  /\ FetchFin("NewData", FALSE, 1)
  /\ UNCHANGED <<locationSubscription, isTracking, lastUpdateTime, locationUpdateTimeout,
                 retryCount, appState, envRest, stk, arg, rv, ops, lad>>

\* lines 254-257
Fetch_FallbackError ==
  /\ pc["fetch"] = "fetch_fb_tx"
  /\ fnow' = 0
  /\ sawPending' = sawPending
  /\ FetchFin("Failed", FALSE, 0)
  /\ UNCHANGED <<svcVars, envVars, stk, arg, rv, pendingAge, ops, lad>>

\* ----------------------------------- IMMEDIATE_UPDATE_TASK (lines 262-286)
Imm_Fire ==
  /\ pc["immtask"] = "idle"
  /\ ops < MaxOps
  /\ immTask
  /\ pc' = [pc EXCEPT !["immtask"] = "imm_acq"]
  /\ acqs' = [acqs EXCEPT !["immtask"] = 1]
  /\ ops' = ops + 1
  /\ ev' = NoEv
  /\ UNCHANGED <<svcVars, envVars, stk, arg, rv, fnow, sawPending, pendingAge, lad>>

\* lines 265-277: the fix arrives and is saved, the stored user is read
Imm_Acquired ==
  /\ pc["immtask"] = "imm_acq"
  /\ permission   \* without it the Position Source delivers nothing
  /\ sawPending' = [sawPending EXCEPT !["immtask"] = pendingImmediateUpdate]
  /\ IF IsDriver
     THEN /\ pc' = [pc EXCEPT !["immtask"] = "imm_tx"]
          /\ \E s \in Fixes : /\ lastKnownLocation' \in Stored(s)
                               /\ ev' = AcqEv("immtask", s)
          /\ UNCHANGED acqs
     ELSE /\ \E s \in Fixes : lastKnownLocation' \in Stored(s)
          /\ Fin("immtask", FALSE, 0)
  /\ UNCHANGED <<svcVars, platformOS, now, timerLeft, liveSubs, nextSub, bgUpdates,
                 fetchTask, immTask, permission, user,
                 stk, arg, rv, fnow, pendingAge, ops, lad>>

\* lines 278-279
Imm_Sent ==
  /\ pc["immtask"] = "imm_tx"
  /\ lastKnownLocation' = updateDriverLocation(lastKnownLocation)
  /\ Fin("immtask", TRUE, 1)
  /\ UNCHANGED <<svcVars, envRest, stk, arg, rv, fnow, sawPending, pendingAge, ops, lad>>

\* lines 282-285
Imm_Error ==
  /\ pc["immtask"] \in {"imm_acq", "imm_tx"}
  /\ Fin("immtask", FALSE, 0)
  /\ UNCHANGED <<svcVars, envVars, stk, arg, rv, fnow, sawPending, pendingAge, ops, lad>>

WatchCallback == Watch_Deliver \/ Watch_Sent \/ Watch_Error
LocationTrackingTask == BgTask_Deliver \/ BgTask_Sent \/ BgTask_Error
BackgroundFetchTask ==
  \/ Fetch_Fire
  \/ Fetch_User
  \/ Fetch_Acquired
  \/ Fetch_Sent
  \/ Fetch_Error
  \/ Fetch_FallbackRead
  \/ Fetch_FallbackSent
  \/ Fetch_FallbackError
ImmediateUpdateTask == Imm_Fire \/ Imm_Acquired \/ Imm_Sent \/ Imm_Error

\* ------------------------------------------------ stopTracking (516-539)
\* lines 528-535 and the return
StopDone(p) ==
  /\ isTracking' = FALSE
  /\ locationUpdateTimeout' = "null"
  /\ timerLeft' = IF locationUpdateTimeout = "handle" THEN -1 ELSE timerLeft
  /\ Ret(p, FALSE)
  /\ ev' = RetEv(p, "stop", FALSE, FALSE, 0)

\* lines 518-519: remove() is called on the held subscription, if any
ST_Enter(p) ==
  /\ Entered(p, "st_enter")
  /\ IF locationSubscription # 0
     THEN /\ liveSubs' = {s \in liveSubs : s.id # locationSubscription}
          /\ pc' = [pc EXCEPT ![p] = "st_removed"]
     ELSE /\ liveSubs' = liveSubs
          /\ pc' = [pc EXCEPT ![p] = "st_has"]
  /\ ops' = OpsAfter(p)
  /\ ev' = NoEv
  /\ UNCHANGED <<svcVars, platformOS, now, timerLeft, nextSub, bgUpdates, fetchTask,
                 immTask, permission, user, lastKnownLocation,
                 stk, arg, rv, acqs, fnow, sawPending, pendingAge, lad>>

\* lines 520-523
ST_Removed(p) ==
  /\ pc[p] = "st_removed"
  /\ locationSubscription' = 0
  /\ pc' = [pc EXCEPT ![p] = "st_has"]
  /\ ev' = NoEv
  /\ UNCHANGED <<isTracking, lastUpdateTime, pendingImmediateUpdate, locationUpdateTimeout,
                 retryCount, appState, envVars, stk, arg, rv, acqs, fnow, sawPending, pendingAge, ops, lad>>

\* lines 523-535: hasStartedLocationUpdatesAsync resolved
ST_HasStarted(p) ==
  /\ pc[p] = "st_has"
  /\ IF bgUpdates.mode # "off"
     THEN /\ pc' = [pc EXCEPT ![p] = "st_stop"]
          /\ ev' = NoEv
          /\ UNCHANGED <<isTracking, locationUpdateTimeout, timerLeft, stk, rv, acqs>>
     ELSE StopDone(p)
  /\ UNCHANGED <<locationSubscription, lastUpdateTime, pendingImmediateUpdate, retryCount,
                 appState, platformOS, now, liveSubs, nextSub, bgUpdates, fetchTask,
                 immTask, permission, user, lastKnownLocation, arg, fnow, sawPending, pendingAge, ops, lad>>

\* lines 525-535: stopLocationUpdatesAsync resolved
ST_Stopped(p) ==
  /\ pc[p] = "st_stop"
  /\ bgUpdates' = BgOff
  /\ StopDone(p)
  /\ UNCHANGED <<locationSubscription, lastUpdateTime, pendingImmediateUpdate, retryCount,
                 appState, platformOS, now, liveSubs, nextSub, fetchTask,
                 immTask, permission, user, lastKnownLocation, arg, fnow, sawPending, pendingAge, ops, lad>>

\* lines 536-538: a platform call threw; the rest of the function is skipped
ST_Error(p) ==
  /\ pc[p] \in {"st_has", "st_stop"}
  /\ Ret(p, FALSE)
  /\ ev' = [RetEv(p, "stop", FALSE, FALSE, 0) EXCEPT !.k = "caught"]
  /\ UNCHANGED <<svcVars, envVars, arg, fnow, sawPending, pendingAge, ops, lad>>

stopTracking(p) ==
  \/ ST_Enter(p)
  \/ ST_Removed(p)
  \/ ST_HasStarted(p)
  \/ ST_Stopped(p)
  \/ ST_Error(p)

\* ------------------------------------- startBackgroundTracking (458-513)
\* lines 458-460
BG_Enter(p) ==
  /\ Entered(p, "sb_enter")
  /\ \E a \in BOOLEAN :
       /\ pc[p] = "sb_enter" => a = arg[p]
       /\ arg' = [arg EXCEPT ![p] = a]
  /\ pc' = [pc EXCEPT ![p] = "sb_perm"]
  /\ ops' = OpsAfter(p)
  /\ ev' = NoEv
  /\ UNCHANGED <<svcVars, envVars, stk, rv, acqs, fnow, sawPending, pendingAge, lad>>

\* lines 460-472: the permission check resolved (the user answers the prompt
\* if permission was missing)
BG_Permission(p) ==
  /\ pc[p] = "sb_perm"
  /\ \E granted \in BOOLEAN :
       /\ permission => granted
       /\ permission' = granted
       /\ IF granted
          THEN /\ pc' = [pc EXCEPT ![p] = "sb_start"]
               /\ ev' = NoEv
               /\ UNCHANGED <<stk, rv, acqs>>
          ELSE /\ Ret(p, FALSE)
               /\ ev' = RetEv(p, "startBg", FALSE, FALSE, 0)
  /\ UNCHANGED <<svcVars, platformOS, now, timerLeft, liveSubs, nextSub, bgUpdates,
                 fetchTask, immTask, user, lastKnownLocation, arg, fnow, sawPending, pendingAge, ops, lad>>

\* lines 472-496: startLocationUpdatesAsync resolved
BG_Started(p) ==
  /\ pc[p] = "sb_start"
  /\ bgUpdates' = BgOn(arg[p])
  /\ isTracking' = TRUE
  /\ Ret(p, TRUE)
  /\ ev' = RetEv(p, "startBg", TRUE, FALSE, 0)
  /\ UNCHANGED <<locationSubscription, lastUpdateTime, pendingImmediateUpdate,
                 locationUpdateTimeout, retryCount, appState,
                 platformOS, now, timerLeft, liveSubs, nextSub, fetchTask, immTask,
                 permission, user, lastKnownLocation, arg, fnow, sawPending, pendingAge, ops, lad>>

\* lines 497-512: startLocationUpdatesAsync threw
BG_Error(p) ==
  /\ pc[p] = "sb_start"
  /\ Ret(p, FALSE)
  /\ ev' = RetEv(p, "startBg", FALSE, FALSE, 0)
  /\ UNCHANGED <<svcVars, envVars, arg, fnow, sawPending, pendingAge, ops, lad>>

startBackgroundTracking(p) ==
  \/ BG_Enter(p)
  \/ BG_Permission(p)
  \/ BG_Started(p)
  \/ BG_Error(p)

\* ------------------------------------- startForegroundTracking (382-455)
\* lines 382-384
FG_Enter(p) ==
  /\ Entered(p, "sf_enter")
  /\ \E a \in BOOLEAN :
       /\ pc[p] = "sf_enter" => a = arg[p]
       /\ arg' = [arg EXCEPT ![p] = a]
  /\ pc' = [pc EXCEPT ![p] = "sf_perm"]
  /\ ops' = OpsAfter(p)
  /\ ev' = NoEv
  /\ UNCHANGED <<svcVars, envVars, stk, rv, acqs, fnow, sawPending, pendingAge, lad>>

\* lines 384-391: the permission check resolved; stopTracking is called
FG_Permission(p) ==
  /\ pc[p] = "sf_perm"
  /\ \E granted \in BOOLEAN :
       /\ permission => granted
       /\ permission' = granted
       /\ IF granted
          THEN /\ pc' = [pc EXCEPT ![p] = "st_enter"]
               /\ stk' = [stk EXCEPT ![p] = <<"sf_after_stop">> \o @]
               /\ ev' = NoEv
               /\ UNCHANGED <<rv, acqs>>
          ELSE /\ Ret(p, FALSE)
               /\ ev' = RetEv(p, "startFg", FALSE, FALSE, 0)
  /\ UNCHANGED <<svcVars, platformOS, now, timerLeft, liveSubs, nextSub, bgUpdates,
                 fetchTask, immTask, user, lastKnownLocation, arg, fnow, sawPending, pendingAge, ops, lad>>

\* lines 394-395: isTaskRegisteredAsync(BACKGROUND_FETCH_TASK) resolved
FG_IsRegistered(p) ==
  /\ pc[p] = "sf_after_stop"
  /\ pc' = [pc EXCEPT ![p] = IF fetchTask = "unreg" THEN "sf_register" ELSE "sf_imm"]
  /\ ev' = NoEv
  /\ UNCHANGED <<svcVars, envVars, stk, arg, rv, acqs, fnow, sawPending, pendingAge, ops, lad>>

\* lines 396-400: registerTaskAsync resolved
FG_Registered(p) ==
  /\ pc[p] = "sf_register"
  /\ fetchTask' = ModeName(arg[p])
  /\ pc' = [pc EXCEPT ![p] = "sf_imm"]
  /\ ev' = NoEv
  /\ UNCHANGED <<svcVars, platformOS, now, timerLeft, liveSubs, nextSub, bgUpdates,
                 immTask, permission, user, lastKnownLocation,
                 stk, arg, rv, acqs, fnow, sawPending, pendingAge, ops, lad>>

\* lines 404-419: the immediate task is registered if it was not; the watch is requested
FG_Immediate(p) ==
  /\ pc[p] = "sf_imm"
  /\ immTask' = TRUE
  /\ pc' = [pc EXCEPT ![p] = "sf_watch"]
  /\ ev' = NoEv
  /\ UNCHANGED <<svcVars, platformOS, now, timerLeft, liveSubs, nextSub, bgUpdates,
                 fetchTask, permission, user, lastKnownLocation,
                 stk, arg, rv, acqs, fnow, sawPending, pendingAge, ops, lad>>

\* lines 419-450: watchPositionAsync resolved with a new subscription
FG_Watching(p) ==
  /\ pc[p] = "sf_watch"
  /\ nextSub' = nextSub + 1
  /\ liveSubs' = liveSubs \cup {[id |-> nextSub + 1, avail |-> arg[p],
                                 options |-> ForegroundOptions(arg[p])]}
  /\ locationSubscription' = nextSub + 1
  /\ isTracking' = TRUE
  /\ Ret(p, TRUE)
  /\ ev' = RetEv(p, "startFg", TRUE, FALSE, 0)
  /\ UNCHANGED <<lastUpdateTime, pendingImmediateUpdate, locationUpdateTimeout, retryCount,
                 appState, platformOS, now, timerLeft, bgUpdates, fetchTask, immTask,
                 permission, user, lastKnownLocation, arg, fnow, sawPending, pendingAge, ops, lad>>

\* lines 451-454: a registration or watchPositionAsync threw
FG_Error(p) ==
  /\ pc[p] \in {"sf_register", "sf_imm", "sf_watch"}
  /\ Ret(p, FALSE)
  /\ ev' = RetEv(p, "startFg", FALSE, FALSE, 0)
  /\ UNCHANGED <<svcVars, envVars, arg, fnow, sawPending, pendingAge, ops, lad>>

startForegroundTracking(p) ==
  \/ FG_Enter(p)
  \/ FG_Permission(p)
  \/ FG_IsRegistered(p)
  \/ FG_Registered(p)
  \/ FG_Immediate(p)
  \/ FG_Watching(p)
  \/ FG_Error(p)

\* ------------------------------------ toggleDriverAvailability (736-764)
\* lines 736-740 and 750: the first call of the chosen branch
TG_Enter(p) ==
  /\ CanCall(p)
  /\ \E a \in BOOLEAN :
       /\ arg' = [arg EXCEPT ![p] = a]
       /\ IF a
          THEN /\ pc' = [pc EXCEPT ![p] = "sb_enter"]
               /\ stk' = [stk EXCEPT ![p] = <<"tg_after_bg">>]
          ELSE /\ pc' = [pc EXCEPT ![p] = "st_enter"]
               /\ stk' = [stk EXCEPT ![p] = <<"tg_after_stop">>]
  /\ ops' = ops + 1
  /\ ev' = NoEv
  /\ UNCHANGED <<svcVars, envVars, rv, acqs, fnow, sawPending, pendingAge, lad>>

\* lines 750-752
TG_AfterStop(p) ==
  /\ pc[p] = "tg_after_stop"
  /\ pc' = [pc EXCEPT ![p] = "sb_enter"]
  /\ stk' = [stk EXCEPT ![p] = <<"tg_after_bg">>]
  /\ ev' = NoEv
  /\ UNCHANGED <<svcVars, envVars, arg, rv, acqs, fnow, sawPending, pendingAge, ops, lad>>

\* lines 740-741 and 752-753
TG_AfterBackground(p) ==
  /\ pc[p] = "tg_after_bg"
  /\ rv' = [rv EXCEPT ![p].bg = rv[p].last]
  /\ pc' = [pc EXCEPT ![p] = "sf_enter"]
  /\ stk' = [stk EXCEPT ![p] = <<"tg_after_fg">>]
  /\ ev' = NoEv
  /\ UNCHANGED <<svcVars, envVars, arg, acqs, fnow, sawPending, pendingAge, ops, lad>>

\* lines 741-744 and 753-756
TG_AfterForeground(p) ==
  /\ pc[p] = "tg_after_fg"
  /\ rv' = [rv EXCEPT ![p].fg = rv[p].last]
  /\ pc' = [pc EXCEPT ![p] = "riu_enter"]
  /\ stk' = [stk EXCEPT ![p] = <<"tg_after_riu">>]
  /\ ev' = NoEv
  /\ UNCHANGED <<svcVars, envVars, arg, acqs, fnow, sawPending, pendingAge, ops, lad>>

\* lines 746 and 758: return bgStarted || fgStarted
TG_Return(p) ==
  /\ pc[p] = "tg_after_riu"
  /\ pc' = [pc EXCEPT ![p] = "idle"]
  /\ rv' = [rv EXCEPT ![p] = [last |-> FALSE, bg |-> FALSE, fg |-> FALSE]]
  /\ ev' = RetEv(p, "toggle", rv[p].bg \/ rv[p].fg, FALSE, 0)
  /\ UNCHANGED <<svcVars, envVars, stk, arg, acqs, fnow, sawPending, pendingAge, ops, lad>>

toggleDriverAvailability(p) ==
  \/ TG_Enter(p)
  \/ TG_AfterStop(p)
  \/ TG_AfterBackground(p)
  \/ TG_AfterForeground(p)
  \/ TG_Return(p)

\* ------------------------------ getCurrentPositionWithErrorHandling
\* (LocationErrorHandling.ts lines 355-421)
Tiers == {"High", "Balanced", "Low"}

\* Location.Accuracy: a larger number is a more precise tier
TierRank(t) == CASE t = "High" -> 3 [] t = "Balanced" -> 2 [] OTHER -> 1

\* line 380: options.maxRetries || DEFAULT_OPTIONS.maxRetries || 3
\* (an absent or zero option is falsy)
ResolveMaxRetries(opt) == IF opt = 0 THEN DEFAULT_MAX_RETRIES ELSE opt

\* the caller's inputs: options.maxRetries (0: absent or zero),
\* options.attemptRecovery and locationOptions.accuracy
Lad_Call ==
  /\ lad.pc = "idle"
  /\ \E opt \in 0..MaxLadderRetries, rec \in BOOLEAN, t \in Tiers :
       lad' = [pc |-> "perm", opt |-> opt, recover |-> rec, accuracy |-> t,
               maxRetries |-> ResolveMaxRetries(opt), retries |-> 0,
               attempts |-> 0, last |-> t, result |-> "none"]
  /\ UNCHANGED <<svcVars, envVars, procVars, obsVars>>

\* lines 360-376: requestLocationPermissionsWithErrorHandling
Lad_Permission ==
  /\ lad.pc = "perm"
  /\ lad' = IF permission
              THEN [lad EXCEPT !.pc = "acq"]
              ELSE [lad EXCEPT !.pc = "done", !.result = "null"]
  /\ UNCHANGED <<svcVars, envVars, procVars, obsVars>>

\* lines 382-384: an attempt inside `while (retries <= maxRetries)` succeeds
Lad_Acquired ==
  /\ lad.pc = "acq"
  /\ lad.retries <= lad.maxRetries
  /\ lad' = [lad EXCEPT !.pc = "done", !.result = "location",
                        !.attempts = @ + 1, !.last = lad.accuracy]
  /\ UNCHANGED <<svcVars, envVars, procVars, obsVars>>

\* lines 385-397, 414-417: the attempt throws; retries++, then return null when
\* retries > maxRetries, break when attemptRecovery is off, else back off
Lad_Failed ==
  /\ lad.pc = "acq"
  /\ lad.retries <= lad.maxRetries
  /\ lad' = [lad EXCEPT !.retries = @ + 1, !.attempts = @ + 1,
                        !.last = lad.accuracy,
                        !.pc = IF lad.retries + 1 > lad.maxRetries \/ ~lad.recover
                                 THEN "done" ELSE "wait",
                        !.result = IF lad.retries + 1 > lad.maxRetries \/ ~lad.recover
                                     THEN "null" ELSE @]
  /\ UNCHANGED <<svcVars, envVars, procVars, obsVars>>

\* the degrade steps with the tiers of the first one exchanged
DegradeExchanged(t, retries, maxRetries) ==
  LET a == IF retries > 1 /\ t = "Balanced" THEN "High" ELSE t
  IN IF retries = maxRetries /\ a = "Balanced" THEN "Low" ELSE a

\* lines 405-412: the two degrade steps, in order, on locationOptions.accuracy
Degrade(t, retries, maxRetries) ==
  LET a == IF retries > 1 /\ t = "High" THEN "Balanced" ELSE t
  IN IF retries = maxRetries /\ a = "Balanced" THEN "Low" ELSE a

\* lines 400-413: after the backoff wait, degrade and loop
Lad_Backoff ==
  /\ lad.pc = "wait"
  /\ lad' = [lad EXCEPT !.pc = "acq",
                        !.accuracy = Degrade(lad.accuracy, lad.retries, lad.maxRetries)]
  /\ UNCHANGED <<svcVars, envVars, procVars, obsVars>>

\* the promise settles
Lad_Return ==
  /\ lad.pc = "done"
  /\ lad' = LadIdle
  /\ UNCHANGED <<svcVars, envVars, procVars, obsVars>>

getCurrentPositionWithErrorHandling ==
  \/ Lad_Call
  \/ Lad_Permission
  \/ Lad_Acquired
  \/ Lad_Failed
  \/ Lad_Backoff
  \/ Lad_Return

\* ------------------------------------------------------------ environment
\* time passes; a timer that is due fires before time passes further
Tick ==
  /\ now < Epoch + MaxTime
  /\ timerLeft # 0
  /\ now' = now + 1
  /\ timerLeft' = IF timerLeft > 0 THEN timerLeft - 1 ELSE timerLeft
  /\ pendingAge' = IF pendingImmediateUpdate /\ ~RiuRunning /\ pendingAge <= DEADLINE
                   THEN pendingAge + 1 ELSE pendingAge
  /\ ev' = NoEv
  /\ UNCHANGED <<svcVars, platformOS, liveSubs, nextSub, bgUpdates,
                 fetchTask, immTask, permission, user, lastKnownLocation, procVars, ops, lad>>

\* lines 620-623: the deadline timer's callback
TimerFire ==
  /\ timerLeft = 0
  /\ pendingImmediateUpdate' = FALSE
  /\ pendingAge' = 0
  /\ timerLeft' = -1
  /\ ev' = NoEv
  /\ UNCHANGED <<locationSubscription, isTracking, lastUpdateTime, locationUpdateTimeout,
                 retryCount, appState, platformOS, now, liveSubs, nextSub,
                 bgUpdates, fetchTask, immTask, permission, user, lastKnownLocation,
                 procVars, ops, lad>>

\* lines 289-292: the AppState 'change' listener
AppStateChange ==
  /\ appState' = IF appState = "active" THEN "background" ELSE "active"
  /\ ev' = NoEv
  /\ UNCHANGED <<locationSubscription, isTracking, lastUpdateTime, pendingImmediateUpdate,
                 locationUpdateTimeout, retryCount, envVars, procVars, pendingAge, ops, lad>>

\* the user revokes or grants the location permission in the device settings
PermissionChange ==
  /\ permission' = ~permission
  /\ ev' = NoEv
  /\ UNCHANGED <<svcVars, platformOS, now, timerLeft, liveSubs, nextSub, bgUpdates,
                 fetchTask, immTask, user, lastKnownLocation, procVars, pendingAge, ops, lad>>

\* ------------------------------------ AuthProvider.logout (lines 171-183)
\* the token and the stored user are removed; the location service is not
\* called, so its subscription, tasks and fields stay as they are
logout ==
  /\ user # "none"
  /\ user' = "none"
  /\ ev' = [NoEv EXCEPT !.k = "ret", !.op = "logout"]
  /\ UNCHANGED <<svcVars, platformOS, now, timerLeft, liveSubs, nextSub, bgUpdates,
                 fetchTask, immTask, permission, lastKnownLocation,
                 procVars, pendingAge, ops, lad>>

\* ---------------------------------------------------------------- claims
\* C1: in every interleaving of requestImmediateUpdate calls at most one
\* immediate position acquisition is outstanding at any instant.
C1_OneAcquisitionOutstanding ==
  Cardinality({p \in Callers : pc[p] \in {"riu_fg_acq", "riu_ios_acq"}}) <= 1

\* C2: once pendingImmediateUpdate is set it is false again no later than the
\* deadline, whatever stopTracking / start / toggle calls happen meanwhile
\* (the age restarts whenever a request sets the flag again and does not run
\* while a request is executing).
C2_ClearedByDeadline ==
  pendingImmediateUpdate => pendingAge <= DEADLINE

\* C3: the capture timestamp of the stored lastKnownLocation never decreases,
\* across all interleavings of the acquisition paths.
C3_StoredTimestampMonotonic ==
  [][lastKnownLocation' >= lastKnownLocation]_vars

\* C4: no silent success: when an update operation attempted a live
\* acquisition, nothing was stored and nothing was transmitted, it does not
\* return true (requestImmediateUpdate and getLocationWithFallback).
C4_NoSilentSuccess ==
  (/\ ev.k = "ret"
   /\ ev.op \in {"riu", "glf"}
   /\ ev.acqs > 0
   /\ lastKnownLocation = 0
   /\ ev.val)
  => ev.sent > 0

\* C5: early satisfaction: when the watch callback, the background location
\* task, the fetch poll or a direct attempt of requestImmediateUpdate got its
\* fresh sample while pendingImmediateUpdate was set and transmitted it, the
\* flag is false when that path finishes (checked where no request is still
\* executing, so nothing else is about to clear it).
C5_EarlySatisfaction ==
  (/\ ev.k \in {"fin", "ret"}
   /\ ev.op \in {"watch", "bgtask", "fetch", "riu"}
   /\ ev.fresh
   /\ ev.pend
   /\ ~RiuRunning)
  => ~pendingImmediateUpdate

\* C6: after stopTracking has completed (isTracking is false and no start
\* follows in this specification) the recurring background poll starts no
\* position acquisition, and no watch or background location updates remain.
C6_NoLoopAfterStop ==
  [][~isTracking =>
       /\ liveSubs' = {}
       /\ bgUpdates'.mode = "off"
       /\ (pc'["fetch"] \in {"fetch_acq", "fetch_acq_nouser"}
             => pc["fetch"] \in {"fetch_acq", "fetch_acq_nouser"})]_vars

\* C7: at every instant at most one foreground watch subscription is live and
\* every live one is the one held in locationSubscription, also when start
\* calls overlap.
C7_SingleHeldSubscription ==
  /\ Cardinality(liveSubs) <= 1
  /\ \A s \in liveSubs : s.id = locationSubscription

\* C8: when toggleDriverAvailability(newMode) returns true and the watch runs
\* with newMode's parameters, the recurring background poll is registered
\* with the minimum interval of newMode too, not of the mode in force before.
C8_PollFollowsNewMode ==
  (/\ ev.k = "ret" /\ ev.op = "toggle" /\ ev.val
   /\ liveSubs # {}
   /\ \A s \in liveSubs : s.avail = ev.mode)
  => fetchTask \in {"unreg", ModeName(ev.mode)}

\* C9: whenever startForegroundTracking returns false, isTrackingActive() is
\* false and no foreground watch subscription is live.
C9_FailedStartLeavesStopped ==
  (ev.k = "ret" /\ ev.op = "startFg" /\ ~ev.val)
  => (~isTracking /\ liveSubs = {})

\* C10: an invocation of the retry ladder with maximum N makes at most N
\* acquisition attempts and its remaining budget N - retries never goes
\* negative.
C10_AtMostNAttempts ==
  lad.pc # "idle" => (lad.attempts <= lad.maxRetries /\ lad.maxRetries - lad.retries >= 0)

\* C11: after a failed attempt that is followed by a retry, the retry requests
\* the tier exactly one step below the failed attempt's (High -> Balanced,
\* Balanced -> Low, Low stays Low), for every maximum and starting tier.
C11_OneTierDownPerRetry ==
  (lad.pc = "acq" /\ lad.attempts > 0)
  => TierRank(lad.accuracy) = (IF lad.last = "Low" THEN 1 ELSE TierRank(lad.last) - 1)

\* C12: within one invocation of a retry ladder the tier requested never
\* becomes more precise: no step of getCurrentPositionWithErrorHandling raises
\* locationOptions.accuracy, and no step of getLocationWithFallback moves to
\* an attempt at a more precise tier.
C12_TierNeverIncreases ==
  [][/\ (lad.pc # "idle" /\ lad'.pc # "idle")
          => TierRank(lad'.accuracy) <= TierRank(lad.accuracy)
     /\ \A p \in Callers :
          (pc[p] \in GlfAcq \cup GlfTx /\ pc'[p] \in GlfAcq \cup GlfTx)
          => GlfTier(pc'[p]) <= GlfTier(pc[p])]_vars

\* C12 witness: the ladder is about to make its fourth attempt, at Low, after
\* attempts at High, High and Balanced.
C12_Witness ==
  lad.pc = "acq" /\ lad.attempts = 3 /\ lad.accuracy = "Low" /\ lad.last = "Balanced"

\* C13: when the transmission that follows a successful acquisition fails, the
\* invocation ends there: the step that leaves a transmission of
\* getLocationWithFallback or requestImmediateUpdate never leads to another
\* acquisition, to the read of the cached sample or to its transmission.
C13_TransmissionFailureEndsInvocation ==
  [][\A p \in Callers :
       (pc[p] \in GlfTx \cup {"riu_fg_tx", "riu_ios_tx"} /\ pc'[p] # pc[p])
       => pc'[p] \notin GlfAcq \cup RiuPcs \cup {"glf_fb_read", "glf_fb_tx"}]_vars

\* C14: no acquisition or transmission error leaves a pipeline entry point as
\* an exception: every return or finish event of the watch callback, the task
\* handlers, requestImmediateUpdate and getLocationWithFallback carries an
\* outcome value, never a thrown error.
C14_NoEscapingException == ev.k # "throw"

\* C15: the retry counter an invocation of requestImmediateUpdate reads in its
\* catch block counts only that invocation's own earlier failures, of which
\* there are none: whenever the transmission of the cached sample fails
\* (the invocation leaves riu_fb_tx without returning true), retryCount is 0.
C15_RetryStatePerInvocation ==
  [][\A p \in Callers :
       (/\ pc[p] = "riu_fb_tx"
        /\ pc'[p] # pc[p]
        /\ ~(ev'.k = "ret" /\ ev'.p = p /\ ev'.val))
       => retryCount = 0]_vars

\* C16: whenever pendingImmediateUpdate is true a deadline timer that will
\* clear it is armed: locationUpdateTimeout holds a timer handle.  Stated for
\* the states in which no requestImmediateUpdate is between setting the flag
\* and arming the timer.
C16_PendingHasDeadline ==
  (pendingImmediateUpdate /\ ~RiuRunning) => locationUpdateTimeout = "handle"

\* C17: transmitting a cached sample never writes LastKnownLocation: every
\* step an invocation takes on its fallback path (reading the cached sample,
\* transmitting it, or that transmission failing) leaves the stored sample
\* and its timestamp as they were, and whenever the stored sample changes the
\* new value is a fix the Position Source delivers at that moment.
C17_FallbackNeverWrites ==
  [][/\ (\E p \in Procs :
           /\ pc[p] \in {"riu_fb_read", "riu_fb_tx", "riu_c_read", "riu_c_tx",
                         "glf_fb_read", "glf_fb_tx", "fetch_fb_read", "fetch_fb_tx"}
           /\ pc'[p] # pc[p])
        => lastKnownLocation' = lastKnownLocation
     /\ lastKnownLocation' # lastKnownLocation => lastKnownLocation' \in Fixes]_vars

\* C17 witness: getLocationWithFallback has just returned true after all three
\* acquisitions failed and a cached sample older than any current fix was
\* transmitted, and that sample is still the stored one.
C17_Witness ==
  /\ ev.k = "ret" /\ ev.op = "glf" /\ ev.val /\ ~ev.fresh
  /\ ev.sent = 1 /\ ev.acqs = 3
  /\ lastKnownLocation # 0 /\ lastKnownLocation < now - 1

\* C18: a routine path checks the tracking state before it transmits: the
\* watch callback and the background poll start a transmission only while
\* isTracking is true, so a sample whose acquisition was already dispatched
\* when stopTracking returned (the step before) is dropped.
C18_NoRoutineTransmissionWhenStopped ==
  [][\A h \in {"watch", "fetch"} :
       (/\ ev.k = "ret" /\ ev.op = "stop"
        /\ pc'[h] \in {"watch_tx", "fetch_tx"} /\ pc'[h] # pc[h])
       => isTracking]_vars

\* C19: lastUpdateTime is advanced when, and only when, a freshly acquired
\* sample has been transmitted: a requestImmediateUpdate that returns after
\* transmitting a fresh sample leaves lastUpdateTime at the current time, and
\* every step that changes lastUpdateTime is the end of a fresh transmission.
C19_LastUpdateTimeIffFreshSuccess ==
  [][/\ (ev'.k = "ret" /\ ev'.op = "riu" /\ ev'.val /\ ev'.fresh)
        => lastUpdateTime' = now
     /\ lastUpdateTime' # lastUpdateTime
        => (ev'.k \in {"ret", "fin"} /\ ev'.fresh)]_vars

\* C20: tracking parameters are a function of the operating mode alone: any
\* two registrations made for the same mode, whether watches started by
\* startForegroundTracking or the location updates started by
\* startBackgroundTracking, hold the same accuracy, minimum interval and
\* minimum distance.
C20_ParametersFunctionOfMode ==
  /\ \A s, t \in liveSubs : s.avail = t.avail => s.options = t.options
  /\ \A s \in liveSubs :
       (bgUpdates.mode # "off" /\ s.avail = (bgUpdates.mode = "avail"))
       => s.options = bgUpdates.options

\* C21: when toggleDriverAvailability(agentId, true) returns after both
\* startBackgroundTracking and startForegroundTracking returned true,
\* background location updates are running and a foreground watch is live.
C21_AvailableTracksBoth ==
  [][\A p \in Callers :
       (/\ pc[p] = "tg_after_riu" /\ pc'[p] = "idle"
        /\ arg[p] /\ rv[p].bg /\ rv[p].fg)
       => (bgUpdates'.mode # "off" /\ liveSubs' # {})]_vars

\* C22: a requestImmediateUpdate that runs while the location permission is
\* denied reports failure to its caller: none of its returns carries true,
\* with or without a stored sample.
C22_PermissionDeniedSurfaced ==
  (ev.k = "ret" /\ ev.op = "riu" /\ ~permission) => ~ev.val

\* C23: mode changes never lose LastKnownLocation: no step of
\* toggleDriverAvailability, stopTracking, startForegroundTracking or
\* startBackgroundTracking changes the stored sample, a stored sample never
\* becomes absent, and it changes only to a fix acquired at that moment.
C23_ModeChangeKeepsLastKnownLocation ==
  [][/\ \A p \in Callers :
          LET Ctl == {"st_enter", "st_removed", "st_has", "st_stop",
                      "sb_enter", "sb_perm", "sb_start",
                      "sf_enter", "sf_perm", "sf_after_stop", "sf_register",
                      "sf_imm", "sf_watch",
                      "tg_after_stop", "tg_after_bg", "tg_after_fg", "tg_after_riu"}
          IN ((pc[p] \in Ctl \/ pc'[p] \in Ctl) /\ pc'[p] # pc[p])
             => lastKnownLocation' = lastKnownLocation
     /\ lastKnownLocation # 0 => lastKnownLocation' # 0
     /\ lastKnownLocation' # lastKnownLocation => lastKnownLocation' \in Fixes]_vars

\* C23 witness: stopTracking has just returned, tracking is stopped, and the
\* sample stored before it ran is still there.
C23_Witness ==
  /\ ev.k = "ret" /\ ev.op = "stop" /\ ~isTracking
  /\ lastKnownLocation # 0

C25_StaleDeliveryDistinguishable ==
  (/\ ev.k = "ret" /\ ev.op = "glf"
   /\ ev.acqs = 3 /\ ~ev.fresh /\ ev.sent = 1)
  => ev.val # TRUE

\* C26: a requestImmediateUpdate that makes no acquisition attempt (the app was
\* not active at entry and the platform is not iOS) returns true with
\* pendingImmediateUpdate set and a fresh 60-second deadline armed.
C26_DeferredRequestAccepted ==
  (/\ ev.k = "ret" /\ ev.op = "riu"
   /\ ev.acqs = 0 /\ platformOS = "android")
  => (/\ ev.val
      /\ pendingImmediateUpdate
      /\ locationUpdateTimeout = "handle"
      /\ timerLeft = DEADLINE)

C28_LastUpdateTimeMonotonic ==
  [][lastUpdateTime' >= lastUpdateTime]_vars

\* C29: whenever pendingImmediateUpdate is false no deadline timer is left
\* armed: a step that clears the flag while a deadline is armed also cancels
\* that deadline.
C29_ClearingFlagCancelsTimer ==
  [][(pendingImmediateUpdate /\ ~pendingImmediateUpdate' /\ timerLeft >= 0)
       => timerLeft' = -1]_vars

\* C30: whenever no control call is in progress, isTrackingActive() is true
\* exactly when the foreground watch subscription or the background location
\* updates are live.
C30_IsTrackingIffLoopLive ==
  (\A p \in Callers : pc[p] = "idle")
    => (isTracking <=> (liveSubs # {} \/ bgUpdates.mode # "off"))

\* C31: a true result of toggleDriverAvailability implies that
\* isTrackingActive() is true and at least one acquisition loop is live at the
\* moment it returns.
C31_ToggleTrueImpliesTracking ==
  (ev.k = "ret" /\ ev.op = "toggle" /\ ev.val)
    => (isTracking /\ (liveSubs # {} \/ bgUpdates.mode # "off"))

\* the mode's interval for the stored profile, and the frame of a poll tick
\* that does nothing and reports NoData
C32_ModeInterval ==
  IF user = "avail" THEN AVAILABLE_DRIVER_INTERVAL ELSE UNAVAILABLE_DRIVER_INTERVAL

C32_TickDoesNothing ==
  /\ pc'["fetch"] = "idle"
  /\ ev'.k = "fin" /\ ev'.op = "fetch" /\ ev'.res = "NoData" /\ ev'.sent = 0
  /\ acqs["fetch"] = 0
  /\ UNCHANGED <<lastUpdateTime, pendingImmediateUpdate, lastKnownLocation>>

\* C32 (as stated): a poll tick that fired while no immediate update was
\* pending, with less than the mode's interval elapsed since lastUpdateTime,
\* acquires nothing, writes nothing, transmits nothing and returns NoData.
C32_QuietTickWhenFiredIdle ==
  [][(/\ pc["fetch"] = "fetch_user" /\ pc'["fetch"] # "fetch_user"
      /\ ~sawPending["fetch"]
      /\ fnow - lastUpdateTime < C32_ModeInterval)
       => C32_TickDoesNothing]_vars

\* C32 (amended): a poll tick that finds no immediate update pending when it
\* evaluates the due check (after the stored profile was read), with less than
\* the mode's interval elapsed between its start and lastUpdateTime, acquires
\* nothing, writes nothing, transmits nothing and returns NoData.
C32_QuietTickWhenNotDue ==
  [][(/\ pc["fetch"] = "fetch_user" /\ pc'["fetch"] # "fetch_user"
      /\ ~pendingImmediateUpdate
      /\ fnow - lastUpdateTime < C32_ModeInterval)
       => C32_TickDoesNothing]_vars

C32_Witness ==
  /\ ev.k = "fin" /\ ev.op = "fetch" /\ ev.res = "NoData"
  /\ ~pendingImmediateUpdate /\ lastUpdateTime > 0

C34_NoTransmissionAfterLogout ==
  [][user = "none"
       => \A h \in {"watch", "bgtask", "fetch", "immtask"} :
            LET Tx == {"watch_tx", "bgtask_tx", "fetch_tx", "fetch_fb_tx", "imm_tx"}
            IN  pc'[h] \in Tx => pc[h] = pc'[h]]_vars

Next ==
  \/ \E p \in Callers : requestImmediateUpdate(p)
  \/ \E p \in Callers : getLocationWithFallback(p)
  \/ \E p \in Callers : stopTracking(p)
  \/ WatchCallback
  \/ LocationTrackingTask
  \/ BackgroundFetchTask
  \/ ImmediateUpdateTask
  \/ Tick
  \/ TimerFire
  \/ AppStateChange

Spec == InitSession /\ [][Next]_vars

\* the tracking mode controller, from the module as loaded.  c1 is a screen
\* (DriverHome.tsx lines 96, 173, 247) and makes any call; the call that
\* overlaps it, c2, is one App.tsx makes (lines 85-98, 120)
TrackingNext ==
  \/ toggleDriverAvailability("c1")
  \/ requestImmediateUpdate("c1")
  \/ \E p \in Callers : startForegroundTracking(p)
  \/ \E p \in Callers : startBackgroundTracking(p)
  \/ \E p \in Callers : stopTracking(p)
  \/ PermissionChange

TrackingSpec == Init /\ [][TrackingNext]_vars

\* the same controller when every call is awaited before the next is made
SerialNext ==
  \/ toggleDriverAvailability("c1")
  \/ requestImmediateUpdate("c1")
  \/ startForegroundTracking("c1")
  \/ startBackgroundTracking("c1")
  \/ stopTracking("c1")
  \/ PermissionChange

SerialSpec == Init /\ [][SerialNext]_vars

\* the two retry ladders on their own: getCurrentPositionWithErrorHandling of
\* LocationErrorHandling.ts and getLocationWithFallback
LadderNext ==
  \/ getCurrentPositionWithErrorHandling
  \/ getLocationWithFallback("c1")
  \/ PermissionChange

LadderSpec == Init /\ [][LadderNext]_vars

\* requestImmediateUpdate while the location permission is denied: every
\* getCurrentPositionAsync rejects, so the steps that receive a fix are not
\* steps of this specification.  A sample of an earlier session may be stored.
InitDenied ==
  /\ InitIdle
  /\ InitFields
  /\ locationSubscription = 0
  /\ isTracking = FALSE
  /\ liveSubs = {}
  /\ nextSub = 0
  /\ bgUpdates = BgOff
  /\ fetchTask = "unreg"
  /\ immTask = FALSE
  /\ platformOS \in {"ios", "android"}
  /\ permission = FALSE
  /\ user \in {"avail", "unavail"}
  /\ lastKnownLocation \in {0, Epoch - 1}
  /\ lad = LadIdle

DeniedNext ==
  \/ \E p \in Callers : RIU_Enter(p)
  \/ \E p \in Callers : RIU_FgError(p)
  \/ \E p \in Callers : RIU_IosError(p)
  \/ \E p \in Callers : RIU_FallbackRead(p)
  \/ \E p \in Callers : RIU_FallbackSent(p)
  \/ \E p \in Callers : RIU_FallbackError(p)
  \/ Tick
  \/ TimerFire
  \/ AppStateChange

DeniedSpec == InitDenied /\ [][DeniedNext]_vars

\* the background poll beside the immediate-update coordinator and the watch, in
\* a running session that may already have sent an update (lastUpdateTime set
\* at line 436 or 229)
InitPolling ==
  /\ InitIdle
  /\ lastUpdateTime \in {0, Epoch - 1}
  /\ pendingImmediateUpdate = FALSE
  /\ locationUpdateTimeout = "null"
  /\ retryCount = 0
  /\ appState = "active"
  /\ platformOS \in {"ios", "android"}
  /\ permission = TRUE
  /\ user \in {"avail", "unavail"}
  /\ lastKnownLocation \in {0, Epoch - 1}
  /\ locationSubscription = 1
  /\ isTracking = TRUE
  /\ liveSubs = {[id |-> 1, avail |-> user = "avail",
                  options |-> ForegroundOptions(user = "avail")]}
  /\ nextSub = 1
  /\ bgUpdates = (IF user = "avail" THEN BgOn(TRUE) ELSE BgOff)
  /\ fetchTask = user
  /\ immTask = TRUE
  /\ lad = LadIdle

PollNext ==
  \/ BackgroundFetchTask
  \/ \E p \in Callers : requestImmediateUpdate(p)
  \/ WatchCallback
  \/ Tick
  \/ TimerFire
  \/ AppStateChange

PollSpec == InitPolling /\ [][PollNext]_vars

\* a running session in which the driver logs out while the watch and the
\* registered tasks go on being served by the platform
LogoutNext ==
  \/ logout
  \/ WatchCallback
  \/ LocationTrackingTask
  \/ BackgroundFetchTask
  \/ ImmediateUpdateTask
  \/ \E p \in Callers : /\ (user # "none" \/ pc[p] # "idle")  \* a driver's screen calls
                         /\ requestImmediateUpdate(p)
  \/ Tick
  \/ TimerFire
  \/ AppStateChange

LogoutSpec == InitSession /\ [][LogoutNext]_vars

====
